---- MODULE Spec2Model ----
(***************************************************************************)
(* The Dopri8 solver of diffrax: the Butcher tableau _dopri8_tableau, the  *)
(* explicit Runge-Kutta step that consumes it, and the dense-output        *)
(* interpolant _Dopri8Interpolation (evaluate, derivative) built from the  *)
(* stages of one step.                                                     *)
(*                                                                         *)
(* dopri8.py holds the tableau and the interpolant.  The constructor       *)
(* ButcherTableau and the step of RungeKutta are imported by dopri8.py     *)
(* from runge_kutta.py; they are modelled from sections 4.1 and 4.2 of the *)
(* specification.                                                          *)
(*                                                                         *)
(* The state of the ODE is modelled by one of its components: every        *)
(* operation of the solver acts on the components independently.  Step     *)
(* lengths are positive (t1 > t0), as the specification requires of an     *)
(* interpolant.                                                            *)
(***************************************************************************)
EXTENDS Integers, Sequences, FiniteSets

\* ------------------------------------------------------------------------
\* Arithmetic.
\*
\* The source computes in floating point on the literals of dopri8.py.  The
\* model computes the same expressions over the rationals, without rounding:
\* a number is  (+/-) mag / (q * 10^e)  where mag and q are naturals of
\* arbitrary size (little-endian sequences of base-1000 limbs, no leading
\* zero limb; the empty sequence is 0) and e is a decimal exponent.  Every
\* statement that the spec makes "to roundoff" is stated with an explicit
\* tolerance; every statement it makes "exactly" is stated as equality of
\* values.
\* ------------------------------------------------------------------------
Base == 10 * 10 * 10

Max(a, b) == IF a >= b THEN a ELSE b

\* a sequence built from a function on 1..n
Seq1(f) == <<>> \o f

RECURSIVE NStrip(_)
NStrip(a) ==
    IF a = <<>> THEN a
    ELSE IF a[Len(a)] = 0 THEN NStrip(SubSeq(a, 1, Len(a) - 1)) ELSE a

Limb(a, i) == IF i <= Len(a) THEN a[i] ELSE 0

\* one pass of carries (borrows, for negative limbs) to the next limb
NPass(x) ==
    LET n == Len(x)
    IN  Seq1([i \in 1..(n + 1) |->
                 (IF i <= n THEN x[i] % Base ELSE 0)
               + (IF i > 1 THEN x[i - 1] \div Base ELSE 0)])

\* the natural  x[1] + x[2] * Base + ...  (limbs of any size and sign, the
\* total non-negative) in normal form
RECURSIVE NCarry(_)
NCarry(x) ==
    IF \A i \in 1..Len(x) : x[i] = 0 THEN <<>>
    ELSE IF \A i \in 1..Len(x) : x[i] >= 0 /\ x[i] < Base THEN NStrip(x)
    ELSE NCarry(NPass(x))

NAdd(a, b) ==
    NCarry(Seq1([i \in 1..Max(Len(a), Len(b)) |-> Limb(a, i) + Limb(b, i)]))

\* a - b for a >= b
NSub(a, b) ==
    NCarry(Seq1([i \in 1..Max(Len(a), Len(b)) |-> Limb(a, i) - Limb(b, i)]))

RECURSIVE NCmpAux(_, _, _)
NCmpAux(a, b, i) ==
    IF i = 0 THEN 0
    ELSE IF a[i] > b[i] THEN 1
    ELSE IF a[i] < b[i] THEN -1
    ELSE NCmpAux(a, b, i - 1)

\* -1, 0, 1 as a < b, a = b, a > b
NCmp(a, b) ==
    IF Len(a) > Len(b) THEN 1
    ELSE IF Len(a) < Len(b) THEN -1
    ELSE IF a = b THEN 0
    ELSE NCmpAux(a, b, Len(a))

\* sum of a[i] * b[k + 1 - i] for i in lo..hi
RECURSIVE NConv(_, _, _, _, _)
NConv(a, b, k, lo, hi) ==
    IF lo > hi THEN 0
    ELSE IF lo = hi THEN a[lo] * b[k + 1 - lo]
    ELSE LET mid == (lo + hi) \div 2
         IN  NConv(a, b, k, lo, mid) + NConv(a, b, k, mid + 1, hi)

NOne == <<1>>

NMul(a, b) ==
    IF a = <<>> \/ b = <<>> THEN <<>>
    ELSE IF a = NOne THEN b
    ELSE IF b = NOne THEN a
    ELSE NCarry(Seq1([k \in 1..(Len(a) + Len(b) - 1) |->
                         NConv(a, b, k, Max(1, k + 1 - Len(b)),
                               IF k <= Len(a) THEN k ELSE Len(a))]))

Zeros(k) == [i \in 1..k |-> 0]

Pow10Small(r) == IF r = 0 THEN 1 ELSE IF r = 1 THEN 10 ELSE 100

NPow10(e) == Seq1(Zeros(e \div 3)) \o <<Pow10Small(e % 3)>>

Reverse(s) == Seq1([i \in 1..Len(s) |-> s[Len(s) + 1 - i]])

\* A natural written in groups of three decimal digits, most significant
\* first, as the source literal reads with thousands separators:
\* 5490023248 is NLit(<<5, 490, 023, 248>>).
NLit(groups) == NStrip(Reverse(groups))

RMk(neg, mag, q, e) ==
    IF mag = <<>> THEN [neg |-> FALSE, mag |-> <<>>, q |-> NOne, e |-> 0]
    ELSE [neg |-> neg, mag |-> mag, q |-> q, e |-> e]

RZero == RMk(FALSE, <<>>, NOne, 0)

\* the integer literal with decimal groups g, e.g. RInt(<<14, 005, 451>>)
RInt(g) == RMk(FALSE, NLit(g), NOne, 0)

ROne == RInt(<<1>>)

\* the decimal literal  ip.fp  where fp lists the fractional digits in groups
\* of three (the last group padded with zeros on the right)
RDec(ip, fp) == RMk(FALSE, NLit(ip \o fp), NOne, 3 * Len(fp))

RIsZero(a) == a.mag = <<>>

RNeg(a) == RMk(~a.neg, a.mag, a.q, a.e)

RAbs(a) == RMk(FALSE, a.mag, a.q, a.e)

\* the numerator of a over q * 10^e2, for e2 >= a.e
RScaled(a, e2) == IF e2 = a.e THEN a.mag ELSE NMul(a.mag, NPow10(e2 - a.e))

SAdd(an, am, bn, bm, q, e) ==
    IF an = bn THEN RMk(an, NAdd(am, bm), q, e)
    ELSE LET c == NCmp(am, bm)
         IN  IF c = 0 THEN RZero
             ELSE IF c = 1 THEN RMk(an, NSub(am, bm), q, e)
             ELSE RMk(bn, NSub(bm, am), q, e)

RAdd(a, b) ==
    IF RIsZero(a) THEN b
    ELSE IF RIsZero(b) THEN a
    ELSE LET e  == Max(a.e, b.e)
             am == RScaled(a, e)
             bm == RScaled(b, e)
         IN  IF a.q = b.q
             THEN SAdd(a.neg, am, b.neg, bm, a.q, e)
             ELSE SAdd(a.neg, NMul(am, b.q), b.neg, NMul(bm, a.q),
                       NMul(a.q, b.q), e)

RSub(a, b) == RAdd(a, RNeg(b))

RMul(a, b) ==
    IF RIsZero(b) \/ RIsZero(a) THEN RZero
    ELSE RMk(a.neg # b.neg, NMul(a.mag, b.mag), NMul(a.q, b.q), a.e + b.e)

\* a / b for b # 0
RDiv(a, b) ==
    IF RIsZero(a) THEN RZero
    ELSE RMk(a.neg # b.neg, NMul(a.mag, NMul(b.q, NPow10(b.e))),
             NMul(a.q, b.mag), a.e)

REq(a, b) == RIsZero(RSub(a, b))

RLeq(a, b) == LET d == RSub(a, b) IN RIsZero(d) \/ d.neg

RLt(a, b) == RSub(a, b).neg

\* the quotient  p / q  of two integer literals of the source, and  -p / q
Q(p, q) == RDiv(RInt(p), RInt(q))

Qn(p, q) == RDiv(RNeg(RInt(p)), RInt(q))

\* ------------------------------------------------------------------------
\* The coefficients of the tableau (dopri8.py, lines 19-188), as the source
\* writes them: quotients of integer literals.
\* ------------------------------------------------------------------------
alpha_values ==
    << Q(<<1>>, <<18>>),
       Q(<<1>>, <<12>>),
       Q(<<1>>, <<8>>),
       Q(<<5>>, <<16>>),
       Q(<<3>>, <<8>>),
       Q(<<59>>, <<400>>),
       Q(<<93>>, <<200>>),
       Q(<<5, 490, 023, 248>>, <<9, 719, 169, 821>>),
       Q(<<13>>, <<20>>),
       Q(<<1, 201, 146, 811>>, <<1, 299, 019, 798>>),
       ROne,
       ROne,
       ROne >>

beta_rows ==
    << << Q(<<1>>, <<18>>) >>,
       << Q(<<1>>, <<48>>),
         Q(<<1>>, <<16>>) >>,
       << Q(<<1>>, <<32>>),
         RZero,
         Q(<<3>>, <<32>>) >>,
       << Q(<<5>>, <<16>>),
         RZero,
         Qn(<<75>>, <<64>>),
         Q(<<75>>, <<64>>) >>,
       << Q(<<3>>, <<80>>),
         RZero,
         RZero,
         Q(<<3>>, <<16>>),
         Q(<<3>>, <<20>>) >>,
       << Q(<<29, 443, 841>>, <<614, 563, 906>>),
         RZero,
         RZero,
         Q(<<77, 736, 538>>, <<692, 538, 347>>),
         Qn(<<28, 693, 883>>, <<1, 125, 000, 000>>),
         Q(<<23, 124, 283>>, <<1, 800, 000, 000>>) >>,
       << Q(<<16, 016, 141>>, <<946, 692, 911>>),
         RZero,
         RZero,
         Q(<<61, 564, 180>>, <<158, 732, 637>>),
         Q(<<22, 789, 713>>, <<633, 445, 777>>),
         Q(<<545, 815, 736>>, <<2, 771, 057, 229>>),
         Qn(<<180, 193, 667>>, <<1, 043, 307, 555>>) >>,
       << Q(<<39, 632, 708>>, <<573, 591, 083>>),
         RZero,
         RZero,
         Qn(<<433, 636, 366>>, <<683, 701, 615>>),
         Qn(<<421, 739, 975>>, <<2, 616, 292, 301>>),
         Q(<<100, 302, 831>>, <<723, 423, 059>>),
         Q(<<790, 204, 164>>, <<839, 813, 087>>),
         Q(<<800, 635, 310>>, <<3, 783, 071, 287>>) >>,
       << Q(<<246, 121, 993>>, <<1, 340, 847, 787>>),
         RZero,
         RZero,
         Qn(<<37, 695, 042, 795>>, <<15, 268, 766, 246>>),
         Qn(<<309, 121, 744>>, <<1, 061, 227, 803>>),
         Qn(<<12, 992, 083>>, <<490, 766, 935>>),
         Q(<<6, 005, 943, 493>>, <<2, 108, 947, 869>>),
         Q(<<393, 006, 217>>, <<1, 396, 673, 457>>),
         Q(<<123, 872, 331>>, <<1, 001, 029, 789>>) >>,
       << Qn(<<1, 028, 468, 189>>, <<846, 180, 014>>),
         RZero,
         RZero,
         Q(<<8, 478, 235, 783>>, <<508, 512, 852>>),
         Q(<<1, 311, 729, 495>>, <<1, 432, 422, 823>>),
         Qn(<<10, 304, 129, 995>>, <<1, 701, 304, 382>>),
         Qn(<<48, 777, 925, 059>>, <<3, 047, 939, 560>>),
         Q(<<15, 336, 726, 248>>, <<1, 032, 824, 649>>),
         Qn(<<45, 442, 868, 181>>, <<3, 398, 467, 696>>),
         Q(<<3, 065, 993, 473>>, <<597, 172, 653>>) >>,
       << Q(<<185, 892, 177>>, <<718, 116, 043>>),
         RZero,
         RZero,
         Qn(<<3, 185, 094, 517>>, <<667, 107, 341>>),
         Qn(<<477, 755, 414>>, <<1, 098, 053, 517>>),
         Qn(<<703, 635, 378>>, <<230, 739, 211>>),
         Q(<<5, 731, 566, 787>>, <<1, 027, 545, 527>>),
         Q(<<5, 232, 866, 602>>, <<850, 066, 563>>),
         Qn(<<4, 093, 664, 535>>, <<808, 688, 257>>),
         Q(<<3, 962, 137, 247>>, <<1, 805, 957, 418>>),
         Q(<<65, 686, 358>>, <<487, 910, 083>>) >>,
       << Q(<<403, 863, 854>>, <<491, 063, 109>>),
         RZero,
         RZero,
         Qn(<<5, 068, 492, 393>>, <<434, 740, 067>>),
         Qn(<<411, 421, 997>>, <<543, 043, 805>>),
         Q(<<652, 783, 627>>, <<914, 296, 604>>),
         Q(<<11, 173, 962, 825>>, <<925, 320, 556>>),
         Qn(<<13, 158, 990, 841>>, <<6, 184, 727, 034>>),
         Q(<<3, 936, 647, 629>>, <<1, 978, 049, 680>>),
         Qn(<<160, 528, 059>>, <<685, 178, 525>>),
         Q(<<248, 638, 103>>, <<1, 413, 531, 060>>),
         RZero >>,
       << Q(<<14, 005, 451>>, <<335, 480, 064>>),
         RZero,
         RZero,
         RZero,
         RZero,
         Qn(<<59, 238, 493>>, <<1, 068, 277, 825>>),
         Q(<<181, 606, 767>>, <<758, 867, 731>>),
         Q(<<561, 292, 985>>, <<797, 845, 732>>),
         Qn(<<1, 041, 891, 430>>, <<1, 371, 343, 529>>),
         Q(<<760, 417, 239>>, <<1, 151, 165, 299>>),
         Q(<<118, 820, 643>>, <<751, 138, 087>>),
         Qn(<<528, 747, 749>>, <<2, 220, 607, 170>>),
         Q(<<1>>, <<4>>) >> >>

c_sol_values ==
    << Q(<<14, 005, 451>>, <<335, 480, 064>>),
       RZero,
       RZero,
       RZero,
       RZero,
       Qn(<<59, 238, 493>>, <<1, 068, 277, 825>>),
       Q(<<181, 606, 767>>, <<758, 867, 731>>),
       Q(<<561, 292, 985>>, <<797, 845, 732>>),
       Qn(<<1, 041, 891, 430>>, <<1, 371, 343, 529>>),
       Q(<<760, 417, 239>>, <<1, 151, 165, 299>>),
       Q(<<118, 820, 643>>, <<751, 138, 087>>),
       Qn(<<528, 747, 749>>, <<2, 220, 607, 170>>),
       Q(<<1>>, <<4>>),
       RZero >>

c_error ==
    << RSub(Q(<<14, 005, 451>>, <<335, 480, 064>>), Q(<<13, 451, 932>>, <<455, 176, 623>>)),
       RZero,
       RZero,
       RZero,
       RZero,
       RSub(Qn(<<59, 238, 493>>, <<1, 068, 277, 825>>), Qn(<<808, 719, 846>>, <<976, 000, 145>>)),
       RSub(Q(<<181, 606, 767>>, <<758, 867, 731>>), Q(<<1, 757, 004, 468>>, <<5, 645, 159, 321>>)),
       RSub(Q(<<561, 292, 985>>, <<797, 845, 732>>), Q(<<656, 045, 339>>, <<265, 891, 186>>)),
       RSub(Qn(<<1, 041, 891, 430>>, <<1, 371, 343, 529>>), Qn(<<3, 867, 574, 721>>, <<1, 518, 517, 206>>)),
       RSub(Q(<<760, 417, 239>>, <<1, 151, 165, 299>>), Q(<<465, 885, 868>>, <<322, 736, 535>>)),
       RSub(Q(<<118, 820, 643>>, <<751, 138, 087>>), Q(<<53, 011, 238>>, <<667, 516, 719>>)),
       RSub(Qn(<<528, 747, 749>>, <<2, 220, 607, 170>>), Q(<<2>>, <<45>>)),
       Q(<<1>>, <<4>>),
       RZero >>

\* A table with one coefficient miscopied or one entry dropped or added: the
\* slips that copying a published tableau invites.
alpha_short == SubSeq(alpha_values, 1, Len(alpha_values) - 1)

alpha == alpha_values

beta_typo ==
    [beta_rows EXCEPT ![7] = [@ EXCEPT ![1] = Q(<<16, 016, 141>>, <<946, 692, 991>>)]]

beta_full_row == [beta_rows EXCEPT ![3] = Append(@, Q(<<3>>, <<32>>))]

beta == beta_rows

c_sol_typo == [c_sol_values EXCEPT ![13] = Q(<<1>>, <<3>>)]

c_sol == c_sol_values

InvalidTableauError == [error |-> "InvalidTableauError"]

\* The constructor of a tableau (specification, section 4.1).  stage_count
\* is the number of stages the rows describe: the first stage, which has no
\* row, and one stage per row of beta.
ButcherTableau(time_fractions, stage_weights, solution_weights, error_weights) ==
    LET stage_count == Len(stage_weights) + 1
    IN  IF \/ Len(time_fractions) # stage_count - 1
           \/ \E i \in 1..Len(stage_weights) : Len(stage_weights[i]) # i
           \/ Len(solution_weights) # stage_count
           \/ Len(error_weights) # stage_count
        THEN InvalidTableauError
        ELSE [stage_count |-> stage_count,
              alpha |-> time_fractions,
              beta |-> stage_weights,
              c_sol |-> solution_weights,
              c_error |-> error_weights]

_dopri8_tableau == ButcherTableau(alpha, beta, c_sol, c_error)

\* ------------------------------------------------------------------------
\* The explicit Runge-Kutta step (specification, section 4.2).
\* ------------------------------------------------------------------------
\* sum of w[j] * v[j] for j in 1..n
RECURSIVE Dot(_, _, _)
Dot(w, v, n) ==
    IF n = 0 THEN RZero
    ELSE RAdd(Dot(w, v, n - 1), RMul(w[n], v[n]))

\* The user-supplied vector field f(t, y): a pure function of (t, y).
VectorFields == {"one", "time", "switch"}

f(vf, t, y) ==
    IF vf = "one" THEN ROne
    ELSE IF vf = "time" THEN t
    ELSE IF RLt(y, ROne) THEN ROne ELSE RNeg(ROne)

\* the state at which stage i >= 2 is evaluated: the combination of the
\* stage derivatives that row i - 1 of beta names
StageState(tab, y_0, h, sd, i) ==
    RAdd(y_0, RMul(h, Dot(tab.beta[i - 1], sd, Len(tab.beta[i - 1]))))

StageTime(tab, t_0, h, i) == RAdd(t_0, RMul(tab.alpha[i - 1], h))

SolutionState(tab, y_0, h, sd) ==
    RAdd(y_0, RMul(h, Dot(tab.c_sol, sd, Len(tab.c_sol))))

ErrorEstimate(tab, h, sd) == RMul(h, Dot(tab.c_error, sd, Len(tab.c_error)))

\* ------------------------------------------------------------------------
\* The coefficients of the interpolant (dopri8.py, lines 198-285), as the
\* source writes them: decimal literals, highest power first.
\* ------------------------------------------------------------------------
eval_coeffs_array ==
    << << RNeg(RDec(<<6>>, <<344, 834, 939, 286, 040, 138, 800>>)),
         RDec(<<22>>, <<139, 650, 499, 809, 406, 897, 600>>),
         RNeg(RDec(<<30>>, <<061, 056, 828, 966, 645, 059, 300>>)),
         RDec(<<19>>, <<999, 006, 933, 368, 397, 061, 000>>),
         RNeg(RDec(<<6>>, <<691, 018, 173, 783, 759, 569, 700>>)),
         ROne >>,
       << RZero,
         RZero,
         RZero,
         RZero,
         RZero,
         RZero >>,
       << RZero,
         RZero,
         RZero,
         RZero,
         RZero,
         RZero >>,
       << RZero,
         RZero,
         RZero,
         RZero,
         RZero,
         RZero >>,
       << RZero,
         RZero,
         RZero,
         RZero,
         RZero,
         RZero >>,
       << RNeg(RDec(<<39>>, <<610, 791, 985, 220, 250, 521, 800>>)),
         RDec(<<116>>, <<442, 214, 955, 034, 216, 165, 100>>),
         RNeg(RDec(<<121>>, <<499, 962, 773, 133, 464, 262, 300>>)),
         RDec(<<52>>, <<227, 353, 279, 294, 552, 405, 000>>),
         RNeg(RDec(<<7>>, <<614, 265, 804, 587, 267, 717, 200>>)),
         RZero >>,
       << RDec(<<20>>, <<376, 121, 380, 879, 143, 695, 800>>),
         RNeg(RDec(<<67>>, <<145, 131, 882, 595, 719, 718, 500>>)),
         RDec(<<83>>, <<172, 100, 463, 984, 771, 748, 100>>),
         RNeg(RDec(<<46>>, <<891, 916, 418, 109, 362, 158, 300>>)),
         RDec(<<10>>, <<728, 139, 263, 042, 886, 612, 400>>),
         RZero >>,
       << RDec(<<7>>, <<334, 709, 882, 679, 536, 202, 300>>),
         RNeg(RDec(<<16>>, <<567, 224, 352, 749, 652, 464, 600>>)),
         RDec(<<9>>, <<572, 450, 755, 599, 366, 438, 200>>),
         RNeg(RDec(<<0>>, <<189, 089, 322, 501, 059, 546, 700>>)),
         RDec(<<0>>, <<552, 663, 706, 375, 364, 878, 300>>),
         RZero >>,
       << RDec(<<32>>, <<880, 177, 435, 245, 915, 518, 200>>),
         RNeg(RDec(<<89>>, <<991, 601, 484, 724, 501, 602, 800>>)),
         RDec(<<87>>, <<840, 605, 767, 720, 564, 500, 700>>),
         RNeg(RDec(<<35>>, <<707, 597, 594, 622, 207, 282, 100>>)),
         RDec(<<4>>, <<218, 656, 262, 566, 515, 380, 300>>),
         RZero >>,
       << RNeg(RDec(<<10>>, <<158, 899, 052, 642, 676, 095, 400>>)),
         RDec(<<22>>, <<623, 748, 964, 853, 284, 909, 300>>),
         RNeg(RDec(<<17>>, <<415, 210, 777, 076, 296, 900, 500>>)),
         RDec(<<6>>, <<273, 644, 808, 324, 035, 216, 000>>),
         RNeg(RDec(<<0>>, <<662, 720, 912, 536, 159, 755, 900>>)),
         RZero >>,
       << RNeg(RDec(<<12>>, <<540, 126, 809, 878, 256, 120, 000>>)),
         RDec(<<32>>, <<236, 234, 016, 735, 537, 011, 300>>),
         RNeg(RDec(<<28>>, <<590, 328, 951, 479, 097, 696, 600>>)),
         RDec(<<10>>, <<316, 088, 127, 245, 074, 845, 800>>),
         RNeg(RDec(<<1>>, <<263, 678, 900, 113, 546, 221, 800>>)),
         RZero >>,
       << RDec(<<29>>, <<555, 300, 148, 451, 603, 803, 300>>),
         RNeg(RDec(<<82>>, <<102, 031, 548, 835, 984, 864, 400>>)),
         RDec(<<81>>, <<663, 095, 058, 434, 141, 293, 400>>),
         RNeg(RDec(<<34>>, <<765, 076, 986, 661, 181, 734, 900>>)),
         RDec(<<5>>, <<410, 603, 789, 859, 042, 223, 000>>),
         RZero >>,
       << RNeg(RDec(<<41>>, <<792, 348, 642, 439, 058, 892, 300>>)),
         RDec(<<116>>, <<266, 218, 579, 111, 953, 346, 200>>),
         RNeg(RDec(<<114>>, <<937, 529, 137, 700, 941, 817, 000>>)),
         RDec(<<47>>, <<745, 797, 107, 822, 554, 039, 600>>),
         RNeg(RDec(<<7>>, <<032, 137, 906, 794, 574, 178, 100>>)),
         RZero >>,
       << RDec(<<20>>, <<300, 692, 582, 210, 082, 548, 500>>),
         RNeg(RDec(<<53>>, <<902, 077, 746, 638, 539, 679, 200>>)),
         RDec(<<50>>, <<255, 836, 422, 617, 601, 755, 300>>),
         RNeg(RDec(<<19>>, <<008, 209, 934, 160, 802, 845, 300>>)),
         RDec(<<2>>, <<353, 758, 675, 971, 498, 348, 600>>),
         RZero >> >>

\* ------------------------------------------------------------------------
\* The interpolant (dopri8.py, lines 193-303).
\* ------------------------------------------------------------------------
\* the declared length of the stage array k
StageCount == 14

None == [none |-> TRUE]

\* a coefficient of one row miscopied
eval_coeffs_typo ==
    [eval_coeffs_array EXCEPT
        ![6] = [@ EXCEPT ![5] = RNeg(RDec(<<7>>, <<614, 266, 804, 587, 267, 717, 200>>))]]

eval_coeffs == eval_coeffs_array

DiffMultipliers == <<6, 5, 4, 3, 2, 1>>

ScaleColumns(m, c) ==
    [i \in 1..Len(m) |-> [j \in 1..Len(m[i]) |-> RMul(m[i][j], RInt(<<c[j]>>))]]

\* the multipliers of a polynomial of degree 5 that was not multiplied by tau
diff_coeffs_degree == ScaleColumns(eval_coeffs, <<5, 4, 3, 2, 1, 0>>)

diff_coeffs == ScaleColumns(eval_coeffs, DiffMultipliers)

_Dopri8Interpolation(t_0, t_1, y_0, y_1, k) ==
    [t0 |-> t_0, t1 |-> t_1, y0 |-> y_0, y1 |-> y_1, k |-> k]

\* jnp.polyval: Horner's rule on the first n coefficients, highest first
RECURSIVE polyval(_, _, _)
polyval(p, x, n) ==
    IF n = 0 THEN RZero
    ELSE RAdd(RMul(polyval(p, x, n - 1), x), p[n])

\* _vmap_polyval: polyval of every row of the matrix at the same point
_vmap_polyval(m, x) == [i \in 1..Len(m) |-> polyval(m[i], x, Len(m[i]))]

\* coeffs @ k
MatVec(coeffs, k) == Dot(coeffs, k, Len(k))

DomainError == [error |-> "DomainError"]

\* evaluate without the factor tau on the per-stage polynomial
RECURSIVE evaluate_no_tau(_, _, _)
evaluate_no_tau(self, t0, t1) ==
    IF t1 # None
    THEN RSub(evaluate_no_tau(self, t1, None), evaluate_no_tau(self, t0, None))
    ELSE LET t == RDiv(RSub(t0, self.t0), RSub(self.t1, self.t0))
             coeffs == _vmap_polyval(eval_coeffs, t)
         IN  RAdd(self.y0, MatVec(coeffs, self.k))

\* evaluate testing "if t1:" where the source tests "if t1 is not None:"
RECURSIVE evaluate_truthy(_, _, _)
evaluate_truthy(self, t0, t1) ==
    IF t1 # None /\ ~RIsZero(t1)
    THEN RSub(evaluate_truthy(self, t1, None), evaluate_truthy(self, t0, None))
    ELSE LET t == RDiv(RSub(t0, self.t0), RSub(self.t1, self.t0))
             p == _vmap_polyval(eval_coeffs, t)
             coeffs == [i \in 1..Len(eval_coeffs) |-> RMul(p[i], t)]
         IN  RAdd(self.y0, MatVec(coeffs, self.k))

\* evaluate rejecting a query time outside [self.t0, self.t1]
RECURSIVE evaluate_bounded(_, _, _)
evaluate_bounded(self, t0, t1) ==
    IF t1 # None
    THEN LET a == evaluate_bounded(self, t0, None)
             b == evaluate_bounded(self, t1, None)
         IN  IF a = DomainError \/ b = DomainError THEN DomainError
             ELSE RSub(b, a)
    ELSE IF RLt(t0, self.t0) \/ RLt(self.t1, t0) THEN DomainError
    ELSE LET t == RDiv(RSub(t0, self.t0), RSub(self.t1, self.t0))
             p == _vmap_polyval(eval_coeffs, t)
             coeffs == [i \in 1..Len(eval_coeffs) |-> RMul(p[i], t)]
         IN  RAdd(self.y0, MatVec(coeffs, self.k))

RECURSIVE evaluate(_, _, _)
evaluate(self, t0, t1) ==
    IF t1 # None
    THEN RSub(evaluate(self, t1, None), evaluate(self, t0, None))
    ELSE LET t == RDiv(RSub(t0, self.t0), RSub(self.t1, self.t0))
             p == _vmap_polyval(eval_coeffs, t)
             coeffs == [i \in 1..Len(eval_coeffs) |-> RMul(p[i], t)]
         IN  RAdd(self.y0, MatVec(coeffs, self.k))

\* derivative without the factor 1 / (t1 - t0) on k
derivative_unscaled(self, t) ==
    LET _rt == RDiv(ROne, RSub(self.t1, self.t0))
        tau == RMul(RSub(t, self.t0), _rt)
        coeffs == _vmap_polyval(diff_coeffs, tau)
    IN  MatVec(coeffs, self.k)

derivative(self, t) ==
    LET _rt == RDiv(ROne, RSub(self.t1, self.t0))
        tau == RMul(RSub(t, self.t0), _rt)
        coeffs == _vmap_polyval(diff_coeffs, tau)
    IN  MatVec(coeffs, [i \in 1..Len(self.k) |-> RMul(self.k[i], _rt)])

\* ------------------------------------------------------------------------
\* The solver as a state machine: one step of the stepper, stage by stage,
\* the interpolant built from it (or constructed directly), one dense query.
\* ------------------------------------------------------------------------
VARIABLES phase, step, stage_derivatives, stage_at, out, interp, query

vars == <<phase, step, stage_derivatives, stage_at, out, interp, query>>

\* Bounds of the model.
MaxHalfSteps == 2
LastQuery == 3

Half == Q(<<1>>, <<2>>)

StartTimes == {RNeg(ROne), RZero}
StepSizes == {RMul(RInt(<<j>>), Half) : j \in 1..MaxHalfSteps}
States == {ROne, RNeg(Half)}
StageValues == {RInt(<<2>>)}

\* the stage arrays a directly constructed interpolant is given: one stage
\* set, the others zero
UnitStages(i, v) == [j \in 1..StageCount |-> IF j = i THEN v ELSE RZero]

\* the query times of an interpolant: t0 + j * (t1 - t0) / 2
RInteger(j) == IF j < 0 THEN RNeg(RInt(<<0 - j>>)) ELSE RInt(<<j>>)

QueryTime(self, j) ==
    RAdd(self.t0, RMul(RMul(RInteger(j), Half), RSub(self.t1, self.t0)))

QueryIndex == (0 - 1)..LastQuery

Init ==
    /\ phase = IF _dopri8_tableau = InvalidTableauError
               THEN "InvalidTableauError" ELSE "idle"
    /\ step = None
    /\ stage_derivatives = <<>>
    /\ stage_at = None
    /\ out = None
    /\ interp = None
    /\ query = None

\* Stage 1: the vector field at (t0, y0).
BeginStep(t_0, y_0, h, vf) ==
    /\ phase = "idle"
    /\ phase' = "stepping"
    /\ step' = [t0 |-> t_0, y0 |-> y_0, dt |-> h, vf |-> vf]
    /\ stage_derivatives' = <<f(vf, t_0, y_0)>>
    /\ stage_at' = [t |-> t_0, y |-> y_0, reads |-> {}]
    /\ UNCHANGED <<out, interp, query>>

\* Stage i = 2 .. stage_count, in this order.
NextStage ==
    /\ phase = "stepping"
    /\ Len(stage_derivatives) < _dopri8_tableau.stage_count
    /\ LET i == Len(stage_derivatives) + 1
           y_i == StageState(_dopri8_tableau, step.y0, step.dt,
                             stage_derivatives, i)
           t_i == StageTime(_dopri8_tableau, step.t0, step.dt, i)
       IN  /\ stage_derivatives' = Append(stage_derivatives, f(step.vf, t_i, y_i))
           /\ stage_at' = [t |-> t_i, y |-> y_i,
                           reads |-> DOMAIN _dopri8_tableau.beta[i - 1]]
    /\ UNCHANGED <<phase, step, out, interp, query>>

\* Steps 3 and 4: the solution and the error estimate.
FinishStep ==
    /\ phase = "stepping"
    /\ Len(stage_derivatives) = _dopri8_tableau.stage_count
    /\ phase' = "stepped"
    /\ out' = [y1 |-> SolutionState(_dopri8_tableau, step.y0, step.dt,
                                    stage_derivatives),
               error_estimate |-> ErrorEstimate(_dopri8_tableau, step.dt,
                                                stage_derivatives)]
    /\ UNCHANGED <<step, stage_derivatives, stage_at, interp, query>>

\* The driver builds the interpolant of the step.  The stage array k it hands
\* over carries the step length, k[i] = dt * stage_derivatives[i]: evaluate
\* adds coeffs @ k to y0 with no factor dt, and derivative divides k by
\* t1 - t0, so both read k as increments of the state over the step.
BuildInterpolant ==
    /\ phase = "stepped"
    /\ phase' = "dense"
    /\ interp' = _Dopri8Interpolation(
                     step.t0, RAdd(step.t0, step.dt), step.y0, out.y1,
                     [i \in 1..Len(stage_derivatives) |->
                         RMul(step.dt, stage_derivatives[i])])
    /\ UNCHANGED <<step, stage_derivatives, stage_at, out, query>>

\* An interpolant constructed directly from given fields.
Construct(t_0, h, y_0, k) ==
    /\ phase = "idle"
    /\ phase' = "dense"
    /\ interp' = _Dopri8Interpolation(t_0, RAdd(t_0, h), y_0, RZero, k)
    /\ UNCHANGED <<step, stage_derivatives, stage_at, out, query>>

Evaluate(t) ==
    /\ phase = "dense"
    /\ phase' = "queried"
    /\ query' = [op |-> "evaluate", t0 |-> t, t1 |-> None,
                 value |-> evaluate(interp, t, None)]
    /\ UNCHANGED <<step, stage_derivatives, stage_at, out, interp>>

EvaluateIncrement(a, b) ==
    /\ phase = "dense"
    /\ phase' = "queried"
    /\ query' = [op |-> "evaluate", t0 |-> a, t1 |-> b,
                 value |-> evaluate(interp, a, b)]
    /\ UNCHANGED <<step, stage_derivatives, stage_at, out, interp>>

Derivative(t) ==
    /\ phase = "dense"
    /\ phase' = "queried"
    /\ query' = [op |-> "derivative", t0 |-> t, t1 |-> None,
                 value |-> derivative(interp, t)]
    /\ UNCHANGED <<step, stage_derivatives, stage_at, out, interp>>

\* The interpolant and the step are dropped; the driver goes on.
Discard ==
    /\ phase = "queried"
    /\ phase' = "idle"
    /\ step' = None
    /\ stage_derivatives' = <<>>
    /\ stage_at' = None
    /\ out' = None
    /\ interp' = None
    /\ query' = None

Next ==
    \/ \E t_0 \in StartTimes, y_0 \in States, h \in StepSizes, vf \in VectorFields :
           BeginStep(t_0, y_0, h, vf)
    \/ NextStage
    \/ FinishStep
    \/ BuildInterpolant
    \/ \E t_0 \in StartTimes, h \in StepSizes, y_0 \in States,
          i \in 1..StageCount, v \in StageValues :
           Construct(t_0, h, y_0, UnitStages(i, v))
    \/ \E j \in QueryIndex : Evaluate(QueryTime(interp, j))
    \/ \E i \in QueryIndex : \E j \in i..LastQuery :
           EvaluateIncrement(QueryTime(interp, i), QueryTime(interp, j))
    \/ \E j \in QueryIndex : Derivative(QueryTime(interp, j))
    \/ Discard

Spec == Init /\ [][Next]_vars

\* ------------------------------------------------------------------------
\* Properties.
\* ------------------------------------------------------------------------
\* the tolerance the specification gives for its consistency checks, 1e-12
Tol == RDec(<<0>>, <<000, 000, 000, 001>>)

Within(a, b, tol) == RLeq(RAbs(RSub(a, b)), tol)

RECURSIVE AbsSum(_, _)
AbsSum(v, n) == IF n = 0 THEN RZero ELSE RAdd(AbsSum(v, n - 1), RAbs(v[n]))

RECURSIVE RowSum(_, _)
RowSum(row, n) == IF n = 0 THEN RZero ELSE RAdd(RowSum(row, n - 1), row[n])

RECURSIVE RPow(_, _)
RPow(x, n) == IF n = 0 THEN ROne ELSE RMul(RPow(x, n - 1), x)

\* the polynomial with coefficients c (highest power first) at x, as a sum
\* of powers
RECURSIVE PowerSum(_, _, _)
PowerSum(c, x, n) ==
    IF n = 0 THEN RZero
    ELSE RAdd(PowerSum(c, x, n - 1), RMul(c[n], RPow(x, Len(c) - n)))

\* the coefficients of  tau * p(tau)  and of  dp / dtau
TimesTau(c) == c \o <<RZero>>

FormalDerivative(c) == [j \in 1..(Len(c) - 1) |-> RMul(c[j], RInt(<<Len(c) - j>>))]

SameCoefficients(c, d) ==
    Len(c) = Len(d) /\ \A j \in 1..Len(c) : REq(c[j], d[j])

IsNumber(v) == DOMAIN v = {"neg", "mag", "q", "e"}

IsEvaluate == query # None /\ query.op = "evaluate" /\ query.t1 = None
IsIncrement == query # None /\ query.op = "evaluate" /\ query.t1 # None
IsDerivative == query # None /\ query.op = "derivative"

Inside(t) == RLeq(interp.t0, t) /\ RLeq(t, interp.t1)

Tau(t) == RDiv(RSub(t, interp.t0), RSub(interp.t1, interp.t0))

StepLength == RSub(interp.t1, interp.t0)

FromStep == step # None /\ interp # None

SomeStageNonZero(lo, hi) == \E i \in lo..hi : ~RIsZero(interp.k[i])

\* C1: evaluate(t0) returns exactly y0, whatever the stage array k.
C1_EvaluateAtStart ==
    (IsEvaluate /\ REq(query.t0, interp.t0)) => REq(query.value, interp.y0)

C1_Witness ==
    /\ IsEvaluate
    /\ REq(query.t0, interp.t0)
    /\ ~RIsZero(interp.k[1])
    /\ SomeStageNonZero(6, StageCount)
    /\ REq(query.value, interp.y0)

C2_WeightsAtOne ==
    /\ Len(eval_coeffs) = Len(c_sol)
    /\ \A i \in 1..Len(c_sol) :
           Within(RowSum(eval_coeffs[i], Len(eval_coeffs[i])), c_sol[i], Tol)

C3_Increment ==
    (IsIncrement /\ RLeq(query.t0, query.t1) /\ Inside(query.t0) /\ Inside(query.t1))
        => LET shifted == [interp EXCEPT !.y0 = RAdd(@, ROne)]
           IN  /\ REq(query.value,
                      RSub(evaluate(interp, query.t1, None),
                           evaluate(interp, query.t0, None)))
               /\ REq(query.value,
                      RSub(evaluate(shifted, query.t1, None),
                           evaluate(shifted, query.t0, None)))
               /\ REq(query.t0, query.t1) => RIsZero(query.value)

C3_Witness ==
    /\ IsIncrement
    /\ RLt(query.t0, query.t1)
    /\ RIsZero(query.t1)
    /\ Inside(query.t0)
    /\ Inside(query.t1)
    /\ ~RIsZero(interp.y0)
    /\ ~RIsZero(query.value)

\* the rows  e_1 .. e_n  of the identity matrix
UnitRows(n) == [i \in 1..n |-> [j \in 1..n |-> IF j = i THEN ROne ELSE RZero]]

\* row by row, diff_coeffs is the formal derivative of tau * eval_coeffs
C4_Rows ==
    /\ Len(diff_coeffs) = Len(eval_coeffs)
    /\ \A i \in 1..Len(eval_coeffs) :
           SameCoefficients(diff_coeffs[i],
                            FormalDerivative(TimesTau(eval_coeffs[i])))
    /\ LET n == Len(DiffMultipliers)
           scaled == ScaleColumns(UnitRows(n), DiffMultipliers)
       IN  \A i \in 1..n :
               SameCoefficients(scaled[i],
                                FormalDerivative(TimesTau(UnitRows(n)[i])))

\* C4: derivative is the analytic time-derivative of evaluate: row i of
\* diff_coeffs is the formal derivative in tau of tau * polyval(eval_coeffs[i],
\* tau), and derivative scales by 1 / (t1 - t0) once.
C4_DerivativeOfEvaluate ==
    /\ C4_Rows
    /\ IsDerivative =>
          REq(query.value,
              RDiv(Dot([i \in 1..StageCount |->
                           PowerSum(FormalDerivative(TimesTau(eval_coeffs[i])),
                                    Tau(query.t0), Len(eval_coeffs[i]))],
                       interp.k, StageCount),
                   StepLength))

C4_Witness ==
    /\ IsDerivative
    /\ RLt(interp.t0, query.t0)
    /\ RLt(query.t0, interp.t1)
    /\ FromStep
    /\ ~REq(StepLength, ROne)
    /\ ~RIsZero(query.value)

\* the constant column of diff_coeffs: 1 for the first stage, 0 for the rest
C5_ConstantColumn ==
    /\ Len(diff_coeffs) = StageCount
    /\ \A i \in 1..Len(diff_coeffs) :
           REq(diff_coeffs[i][Len(diff_coeffs[i])],
               IF i = 1 THEN ROne ELSE RZero)

\* C5: derivative(t0) is k[0] / (t1 - t0); no other stage contributes.
C5_DerivativeAtStart ==
    /\ C5_ConstantColumn
    /\ (IsDerivative /\ REq(query.t0, interp.t0)) =>
          REq(query.value, RDiv(interp.k[1], StepLength))

C5_Witness ==
    /\ IsDerivative
    /\ REq(query.t0, interp.t0)
    /\ ~REq(StepLength, ROne)
    /\ ~RIsZero(interp.k[1])
    /\ SomeStageNonZero(2, StageCount)

C6_TableShapes ==
    /\ Len(alpha) = StageCount - 1
    /\ Len(beta) = StageCount - 1
    /\ \A i \in 1..Len(beta) : Len(beta[i]) = i
    /\ Len(c_sol) = StageCount
    /\ Len(c_error) = StageCount
    /\ Len(eval_coeffs) = StageCount
    /\ Len(diff_coeffs) = StageCount
    /\ \A i \in 1..StageCount :
           /\ Len(eval_coeffs[i]) = Len(DiffMultipliers)
           /\ Len(diff_coeffs[i]) = Len(DiffMultipliers)

\* C6: the tableau and the interpolation tables have the shapes of one
\* stage_count, the declared length of k, and the construction of the
\* tableau does not fail.
C6_ShapeConsistent ==
    /\ phase # "InvalidTableauError"
    /\ _dopri8_tableau # InvalidTableauError
    /\ _dopri8_tableau.stage_count = StageCount
    /\ C6_TableShapes
    /\ interp # None => Len(interp.k) = StageCount
    /\ (phase \in {"stepped", "dense", "queried"} /\ step # None)
           => Len(stage_derivatives) = StageCount

C6_Witness ==
    /\ phase = "dense"
    /\ FromStep
    /\ Len(interp.k) = StageCount
    /\ _dopri8_tableau.stage_count = StageCount

C7_Rows ==
    /\ Len(beta) = Len(alpha)
    /\ \A i \in 1..Len(beta) : Within(RowSum(beta[i], Len(beta[i])), alpha[i], Tol)

\* C7: the sum of row i of beta is alpha[i] within 1e-12, for all 13 rows;
\* so, for the vector field 1, every stage is evaluated at the state
\* y0 + (t_i - t0), within 1e-12 * dt.
C7_RowSumConsistency ==
    /\ C7_Rows
    /\ (phase = "stepping" /\ step.vf = "one") =>
          Within(RSub(stage_at.y, step.y0), RSub(stage_at.t, step.t0),
                 RMul(Tol, step.dt))

C7_Witness ==
    /\ phase = "stepping"
    /\ step.vf = "one"
    /\ Len(stage_derivatives) = StageCount
    /\ ~REq(stage_at.t, step.t0)

\* C8: no query time is rejected: outside [t0, t1] too, evaluate(t),
\* evaluate(a, b) and derivative(t) return the value of the same polynomials.
C8_NoBoundsRejection ==
    query # None =>
        /\ IsNumber(query.value)
        /\ (IsEvaluate /\ ~Inside(query.t0)) =>
              REq(query.value,
                  RAdd(interp.y0,
                       Dot([i \in 1..StageCount |->
                               PowerSum(TimesTau(eval_coeffs[i]), Tau(query.t0),
                                        Len(eval_coeffs[i]) + 1)],
                           interp.k, StageCount)))
        /\ (IsIncrement /\ (~Inside(query.t0) \/ ~Inside(query.t1))) =>
              REq(query.value,
                  Dot([i \in 1..StageCount |->
                          RSub(PowerSum(TimesTau(eval_coeffs[i]), Tau(query.t1),
                                        Len(eval_coeffs[i]) + 1),
                               PowerSum(TimesTau(eval_coeffs[i]), Tau(query.t0),
                                        Len(eval_coeffs[i]) + 1))],
                      interp.k, StageCount))
        /\ (IsDerivative /\ ~Inside(query.t0)) =>
              REq(query.value,
                  RDiv(Dot([i \in 1..StageCount |->
                               PowerSum(diff_coeffs[i], Tau(query.t0),
                                        Len(diff_coeffs[i]))],
                           interp.k, StageCount),
                       StepLength))

C8_Witness ==
    /\ IsEvaluate
    /\ RLt(interp.t1, query.t0)
    /\ FromStep
    /\ IsNumber(query.value)
    /\ ~REq(query.value, interp.y0)

C9_Triangular == \A i \in 1..Len(beta) : Len(beta[i]) = i

\* C9: stages are computed in increasing order and stage i reads only the
\* stage derivatives 1 .. i-1, computed before it in the same step: row i-1
\* of beta has i-1 entries.
C9_StagesReadEarlierStages ==
    /\ C9_Triangular
    /\ phase = "stepping" =>
          /\ Len(stage_derivatives) >= 1
          /\ stage_at.reads = 1..(Len(stage_derivatives) - 1)
          /\ \A j \in stage_at.reads : j < Len(stage_derivatives)

C9_Witness ==
    /\ phase = "stepping"
    /\ Len(stage_derivatives) = StageCount
    /\ stage_at.reads = 1..(StageCount - 1)
    /\ \E i, j \in 1..StageCount :
           ~REq(stage_derivatives[i], stage_derivatives[j])

C10_Tables ==
    /\ Len(beta) = StageCount - 1
    /\ Len(c_sol) = StageCount
    /\ Len(beta[Len(beta)]) = StageCount - 1
    /\ \A j \in 1..(StageCount - 1) : REq(beta[Len(beta)][j], c_sol[j])
    /\ RIsZero(c_sol[StageCount])
    /\ RIsZero(c_error[StageCount])
    /\ REq(alpha[Len(alpha)], ROne)

\* C10: the last row of beta is c_sol without its last entry, the last
\* entries of c_sol and c_error are 0 and the last alpha is 1; the last stage
\* is evaluated at (t0 + dt, y1) and contributes nothing to y1 or to the
\* error estimate.
C10_FirstSameAsLast ==
    /\ C10_Tables
    /\ (phase \in {"stepped", "dense", "queried"} /\ step # None) =>
          /\ REq(stage_at.y, out.y1)
          /\ REq(stage_at.t, RAdd(step.t0, step.dt))
    /\ phase = "stepped" =>
          /\ REq(out.y1,
                 RAdd(step.y0,
                      RMul(step.dt, Dot(c_sol, stage_derivatives, StageCount - 1))))
          /\ REq(out.error_estimate,
                 RMul(step.dt, Dot(c_error, stage_derivatives, StageCount - 1)))

C10_Witness ==
    /\ phase = "stepped"
    /\ ~RIsZero(stage_derivatives[StageCount])
    /\ REq(stage_at.y, out.y1)
    /\ ~REq(out.y1, step.y0)

====
